---------------------------- MODULE Spec2Model ----------------------------
(***************************************************************************)
(* Model of CF.STL_Ranges_00 (main.cpp and its later revision with the     *)
(* __cpp_lib_ranges fallback).                                             *)
(*                                                                         *)
(* The program is modelled statement by statement: main() prints a banner, *)
(* shows `numbers`, builds the view `numbers | filter | transform |        *)
(* reverse`, shows it, then calls use_for_each(), which shows `vec`, runs  *)
(* ranges::for_each over `vec | filter(even)` and shows `vec` again.       *)
(*                                                                         *)
(* The views are modelled at iterator level, as the library specifies      *)
(* them: filter_view::begin() is a find_if whose result is cached,         *)
(* filter_view::iterator::operator++ / operator-- search for the next /    *)
(* previous element satisfying the predicate, reverse_view hands out       *)
(* reverse_iterators whose dereference steps back once before reading.     *)
(* Positions are 1-based; Len(s) + 1 is the past-the-end position.         *)
(***************************************************************************)
EXTENDS Integers, Sequences, FiniteSets, TLC

\* ------------------------------------------------------------------ bounds
\* Longest generated input sequence.
MaxLen == 3
\* Generated elements are drawn from 0 .. MaxVal.
MaxVal == 2
\* Number of full consumptions of the built pipeline in the pipeline harness.
MaxConsume == 2

VARIABLES
    source_file,    \* which revision is built: "main.cpp" or "part_000"
    cpp_lib_ranges, \* whether the feature macro __cpp_lib_ranges is defined
    pc,             \* position of the single thread of control
    numbers,        \* std::vector<int> numbers (main)
    predicate,      \* the predicate handed to views::filter in main
    built,          \* whether `results` has been constructed
    built_src,      \* contents of numbers at the moment `results` was built
    cached_begin,   \* filter_view's cached begin(): 0 = empty, else a position
    it,             \* show's __begin (for a reverse view: the base position)
    last,           \* show's __end
    line,           \* what show has written to the current output line
    out,            \* completed output lines of std::cout
    vec_init,       \* initializer list of vec in use_for_each
    vec,            \* std::vector<int> vec (use_for_each)
    fe_it,          \* for_each's `first`, a filter_view iterator over vec
    mutated,        \* positions of vec the mutator was invoked on, in call order
    consumptions,   \* completed show(results) calls
    modified,       \* whether the owner wrote to numbers after building results
    ub,             \* an iterator left its range (undefined behaviour reached)
    exit_code       \* <<>> while running, <<status>> once main returned

vars == << source_file, cpp_lib_ranges, pc, numbers, predicate, built, built_src,
           cached_begin, it, last, line, out, vec_init, vec, fe_it, mutated,
           consumptions, modified, ub, exit_code >>

\* ------------------------------------------------------------ program data
Numbers0 == << 6, 5, 4, 3, 2, 1 >>
Vec0 == << 1, 2, 3, 4, 5 >>

Values == 0 .. MaxVal
BoundedSeqs == UNION { [1 .. n -> Values] : n \in 0 .. MaxLen }
Predicates == { "is_even", "always_false" }

\* The builds that exist: main.cpp uses <ranges> unconditionally, so it only
\* builds where the facility is present; part_000 builds either way.
Builds == { << "main.cpp", TRUE >>, << "part_000", TRUE >>, << "part_000", FALSE >> }

\* ------------------------------------------------------- lambdas and macros
\* auto is_even = [](auto const n) { return n % 2 == 0; };
is_even(n) == n % 2 = 0

\* const auto even = [](int i) { return 0 == i % 2; };
\*   variant: the test inverted.
even_odd(i) == 1 = i % 2
even(i) == 0 = i % 2

\* Invocation of the predicate object a filter_view holds: main's is_even,
\* use_for_each's even, or the harness's never-matching predicate.
Pred(p, n) ==
    CASE p = "is_even" -> is_even(n)
      [] p = "even" -> even(n)
      [] OTHER -> FALSE

\* [](auto n) { return ++n; } : the value the transform stage yields.  The
\* lambda only ever receives elements the filter let through.
\*   variant: the increment left out.
MapperResult_identity(n) == n
MapperResult(n) == n + 1

\* [](auto n) { return ++n; } : what the call leaves in the element it was
\* given.  n is a by-value parameter, so the element keeps its value.
\*   variant: the parameter taken by reference (auto & n).
MapperStore_byref(n) == n + 1
MapperStore(n) == n

\* [](int & i) { i += 1; } : the value left in the element's storage.
\*   variant: i += 2.
mutator_twice(i) == i + 2
mutator(i) == i + 1

\* #define stfy(STR) #STR : the spelling of the argument, unexpanded.
stfy(STR) == STR

\* #ifdef __cpp_lib_ranges in main().
UseViews == cpp_lib_ranges

\* #ifdef __cpp_lib_ranges in use_for_each().
\*   variant: the guard left out.
UseForEach_always == TRUE
UseForEach == cpp_lib_ranges

\* return 0;
ExitStatus == 0

\* ------------------------------------------------------------ library parts
\* ranges::find_if(first, end, pred): first position >= from whose element
\* satisfies pred, else the end position.
\*   variant: the predicate is not consulted.
find_if_all(s, from, p) == IF from <= Len(s) THEN from ELSE Len(s) + 1
find_if(s, from, p) ==
    LET hits == { j \in from .. Len(s) : Pred(p, s[j]) }
    IN  IF hits = {} THEN Len(s) + 1
        ELSE CHOOSE j \in hits : \A k \in hits : j <= k

\* filter_view::iterator::operator-- : do --current; while (!pred(*current)).
\* 0 stands for a position before the first element (outside the range).
filter_prev(s, pos, p) ==
    LET hits == { j \in 1 .. (pos - 1) : j <= Len(s) /\ Pred(p, s[j]) }
    IN  IF hits = {} THEN 0
        ELSE CHOOSE j \in hits : \A k \in hits : j >= k

\* filter_view::begin(): the cached position when there is one, else find_if
\* from the base's begin.
\*   variants: the cached position off by one; the base's begin taken for
\*   the first match.
filter_begin_offby(s, cache, p) == IF cache # 0 THEN cache + 1 ELSE find_if(s, 1, p)
filter_begin_nofind(s, cache, p) == IF cache # 0 THEN cache ELSE 1
filter_begin(s, cache, p) == IF cache # 0 THEN cache ELSE find_if(s, 1, p)

\* ref_view<std::vector<int>>: the view holds a pointer to the vector, so it
\* reads the vector as it is now, not as it was when the view was built.
\*   variant: the view owns a copy made when it was built.
ViewBase_owning(now, at_build) == at_build
ViewBase(now, at_build) == now

\* Write v through a reference to element i of s.
StoreAt(s, i, v) == IF i \in DOMAIN s THEN [s EXCEPT ![i] = v] ELSE s

\* --------------------------------------------------------------- output
TextLine(t) == [kind |-> "text", text |-> t, data |-> << >>]
ShowLine(c, d) == [kind |-> "show", text |-> c, data |-> d]

\* The banner main() prints before the first show.
Banner ==
    IF source_file = "main.cpp"
    THEN << TextLine("C++ Version") >>
    ELSE << TextLine("CF.STL_Ranges_00"), TextLine("C++ Version"),
            TextLine("~"), TextLine("version_details"), TextLine("identify"),
            TextLine("~") >>

\* The #else branch's diagnostic for facility `what`.
Diagnostic(what) ==
    << TextLine(""), TextLine("~"), TextLine(what),
       TextLine(stfy("__cpp_lib_ranges")), TextLine("~") >>

\* --------------------------------------------------------------- show
\* The container each show call is given, and where control continues.
Container(p) ==
    CASE p \in { "show_numbers", "show_numbers_loop" } -> "numbers"
      [] p \in { "show_results", "show_results_loop" } -> "results"
      [] OTHER -> "vec"

LoopOf(p) ==
    CASE p = "show_numbers" -> "show_numbers_loop"
      [] p = "show_results" -> "show_results_loop"
      [] p = "show_vec" -> "show_vec_loop"
      [] OTHER -> "show_vec_after_loop"

\*   variant: main goes from show(numbers) straight to use_for_each().
AfterShow_skip(p) ==
    CASE p = "show_numbers_loop" -> "use_for_each"
      [] p = "show_results_loop" -> "use_for_each"
      [] p = "show_vec_loop" -> "for_each"
      [] OTHER -> "return"
AfterShow(p) ==
    CASE p = "show_numbers_loop" -> "build"
      [] p = "show_results_loop" -> "use_for_each"
      [] p = "show_vec_loop" -> "for_each"
      [] OTHER -> "return"

ShowEntry == { "show_numbers", "show_results", "show_vec", "show_vec_after" }
ShowLoop == { "show_numbers_loop", "show_results_loop", "show_vec_loop",
              "show_vec_after_loop" }

\* ------------------------------------------------------------ initial states
InitCommon ==
    /\ pc = "start"
    /\ built = FALSE
    /\ built_src = << >>
    /\ cached_begin = 0
    /\ it = 0 /\ last = 0
    /\ line = << >>
    /\ out = << >>
    /\ vec = << >>
    /\ fe_it = 0
    /\ mutated = << >>
    /\ consumptions = 0
    /\ modified = FALSE
    /\ ub = FALSE
    /\ exit_code = << >>

\* The program as written.
Init ==
    /\ \E b \in Builds : source_file = b[1] /\ cpp_lib_ranges = b[2]
    /\ numbers = Numbers0
    /\ predicate = "is_even"
    /\ vec_init = Vec0
    /\ InitCommon

\* ------------------------------------------------------------------ actions
\* main(): the banner statements before the first show, one per step.
PrintBanner ==
    /\ pc = "start"
    /\ out' = Append(out, Banner[Len(out) + 1])
    /\ pc' = IF Len(out) + 1 = Len(Banner) THEN "show_numbers" ELSE "start"
    /\ UNCHANGED << source_file, cpp_lib_ranges, numbers, predicate, built,
                    built_src, cached_begin, it, last, line, vec_init, vec,
                    fe_it, mutated, consumptions, modified, ub, exit_code >>

\* show: auto __begin = container.begin(); auto __end = container.end();
\* For `results`, begin() is reverse_iterator(end of the filtered base) and
\* end() is reverse_iterator(filter_view::begin()), which fills the cache.
ShowBegin ==
    /\ pc \in ShowEntry
    /\ IF Container(pc) = "results"
       THEN LET base == ViewBase(numbers, built_src)
                b == filter_begin(base, cached_begin, predicate)
            IN  /\ it' = Len(base) + 1
                /\ last' = b
                /\ cached_begin' = b
       ELSE LET c == IF Container(pc) = "numbers" THEN numbers ELSE vec
            IN  /\ it' = 1
                /\ last' = Len(c) + 1
                /\ UNCHANGED cached_begin
    /\ pc' = LoopOf(pc)
    /\ UNCHANGED << source_file, cpp_lib_ranges, numbers, predicate, built,
                    built_src, line, out, vec_init, vec, fe_it, mutated,
                    consumptions, modified, ub, exit_code >>

\* show: one iteration of the range-for: v = *__begin; cout << v; ++__begin.
ShowElem ==
    /\ pc \in ShowLoop
    /\ it # last
    /\ IF Container(pc) = "results"
       THEN LET base == ViewBase(numbers, built_src)
                p == filter_prev(base, it, predicate)
            IN  IF p = 0
                THEN /\ ub' = TRUE
                     /\ pc' = "crashed"
                     /\ UNCHANGED << numbers, line, it >>
                ELSE LET stored == StoreAt(numbers, p, MapperStore(base[p]))
                         nbase == ViewBase(stored, built_src)
                         q == filter_prev(nbase, it, predicate)
                     IN  /\ line' = Append(line, MapperResult(base[p]))
                         /\ numbers' = stored
                         /\ IF q = 0
                            THEN /\ ub' = TRUE
                                 /\ pc' = "crashed"
                                 /\ UNCHANGED it
                            ELSE /\ it' = q
                                 /\ UNCHANGED << ub, pc >>
       ELSE LET c == IF Container(pc) = "numbers" THEN numbers ELSE vec
            IN  /\ line' = Append(line, c[it])
                /\ it' = it + 1
                /\ UNCHANGED << numbers, ub, pc >>
    /\ UNCHANGED << source_file, cpp_lib_ranges, predicate, built, built_src,
                    cached_begin, last, out, vec_init, vec, fe_it, mutated,
                    consumptions, modified, exit_code >>

\* show: the loop is over; std::cout << std::endl.
ShowEndl ==
    /\ pc \in ShowLoop
    /\ it = last
    /\ out' = Append(out, ShowLine(Container(pc), line))
    /\ line' = << >>
    /\ consumptions' = IF Container(pc) = "results" THEN consumptions + 1
                       ELSE consumptions
    /\ pc' = AfterShow(pc)
    /\ UNCHANGED << source_file, cpp_lib_ranges, numbers, predicate, built,
                    built_src, cached_begin, it, last, vec_init, vec, fe_it,
                    mutated, modified, ub, exit_code >>

\* auto results = numbers | filter(is_even) | transform(...) | reverse;
BuildPipeline ==
    /\ pc = "build"
    /\ UseViews
    /\ built' = TRUE
    /\ built_src' = numbers
    /\ cached_begin' = 0
    /\ pc' = "show_results"
    /\ UNCHANGED << source_file, cpp_lib_ranges, numbers, predicate, it, last,
                    line, out, vec_init, vec, fe_it, mutated, consumptions,
                    modified, ub, exit_code >>

\* The #else branch of main(): the diagnostic replaces the demonstration.
ViewsUnavailable ==
    /\ pc = "build"
    /\ ~UseViews
    /\ out' = out \o Diagnostic("std::views not available")
    /\ pc' = "use_for_each"
    /\ UNCHANGED << source_file, cpp_lib_ranges, numbers, predicate, built,
                    built_src, cached_begin, it, last, line, vec_init, vec,
                    fe_it, mutated, consumptions, modified, ub, exit_code >>

\* use_for_each(): the heading, and the construction of vec.
UseForEachEnter ==
    /\ pc = "use_for_each"
    /\ out' = Append(out, TextLine("In fnuction use_for_each()"))
    /\ vec' = vec_init
    /\ pc' = "show_vec"
    /\ UNCHANGED << source_file, cpp_lib_ranges, numbers, predicate, built,
                    built_src, cached_begin, it, last, line, vec_init, fe_it,
                    mutated, consumptions, modified, ub, exit_code >>

\* ranges::for_each: first = ranges::begin(vec | filter(even)).
ForEachBegin ==
    /\ pc = "for_each"
    /\ UseForEach
    /\ fe_it' = find_if(vec, 1, "even")
    /\ pc' = "for_each_loop"
    /\ UNCHANGED << source_file, cpp_lib_ranges, numbers, predicate, built,
                    built_src, cached_begin, it, last, line, out, vec_init,
                    vec, mutated, consumptions, modified, ub, exit_code >>

\* ranges::for_each: invoke(f, *first); ++first.
\* The mutator makes the element fail the predicate, which the standard
\* leaves undefined for a filter_view iterator; operator++ is nevertheless
\* specified as find_if from the next position and never reads the element
\* again, and that is what every build of this single pass does.
ForEachStep ==
    /\ pc = "for_each_loop"
    /\ fe_it <= Len(vec)
    /\ LET after == [vec EXCEPT ![fe_it] = mutator(@)]
       IN  /\ vec' = after
           /\ fe_it' = find_if(after, fe_it + 1, "even")
    /\ mutated' = Append(mutated, fe_it)
    /\ UNCHANGED << source_file, cpp_lib_ranges, pc, numbers, predicate, built,
                    built_src, cached_begin, it, last, line, out, vec_init,
                    consumptions, modified, ub, exit_code >>

\* ranges::for_each: first == last.
ForEachEnd ==
    /\ pc = "for_each_loop"
    /\ fe_it > Len(vec)
    /\ pc' = "show_vec_after"
    /\ UNCHANGED << source_file, cpp_lib_ranges, numbers, predicate, built,
                    built_src, cached_begin, it, last, line, out, vec_init,
                    vec, fe_it, mutated, consumptions, modified, ub,
                    exit_code >>

\* The #else branch of use_for_each().
ForEachUnavailable ==
    /\ pc = "for_each"
    /\ ~UseForEach
    /\ out' = out \o Diagnostic("std::ranges::for_each not available")
    /\ pc' = "show_vec_after"
    /\ UNCHANGED << source_file, cpp_lib_ranges, numbers, predicate, built,
                    built_src, cached_begin, it, last, line, vec_init, vec,
                    fe_it, mutated, consumptions, modified, ub, exit_code >>

\* use_for_each() returns; main(): return 0.
Return0 ==
    /\ pc = "return"
    /\ exit_code' = << ExitStatus >>
    /\ pc' = "done"
    /\ UNCHANGED << source_file, cpp_lib_ranges, numbers, predicate, built,
                    built_src, cached_begin, it, last, line, out, vec_init,
                    vec, fe_it, mutated, consumptions, modified, ub >>

Next ==
    \/ PrintBanner
    \/ ShowBegin
    \/ ShowElem
    \/ ShowEndl
    \/ BuildPipeline
    \/ ViewsUnavailable
    \/ UseForEachEnter
    \/ ForEachBegin
    \/ ForEachStep
    \/ ForEachEnd
    \/ ForEachUnavailable
    \/ Return0

Spec == Init /\ [][Next]_vars

\* The program is sequential and nothing blocks: an enabled step is taken.
LiveSpec == Spec /\ WF_vars(Next)

\* ----------------------------------------------------------- pipeline harness
\* The pipeline of main() over every bounded source and both predicates, with
\* the two things a caller of the view can do that main() does not: write to
\* the source between building the view and consuming it, and consume the
\* view again.
InitPipe ==
    /\ source_file = "part_000" /\ cpp_lib_ranges = TRUE
    /\ numbers \in BoundedSeqs
    /\ predicate \in Predicates
    /\ vec_init = Vec0
    /\ InitCommon

\* The owner of numbers writes to it once before the view is first consumed:
\* an element assignment, a push_back or a pop_back.  The view holds no
\* iterator into the vector yet, so none is invalidated.
ModifySource ==
    /\ pc = "show_results"
    /\ built /\ consumptions = 0 /\ ~modified
    /\ \/ \E i \in DOMAIN numbers, v \in Values :
            /\ v # numbers[i]
            /\ numbers' = [numbers EXCEPT ![i] = v]
       \/ \E v \in Values :
            /\ Len(numbers) < MaxLen
            /\ numbers' = Append(numbers, v)
       \/ /\ numbers # << >>
          /\ numbers' = SubSeq(numbers, 1, Len(numbers) - 1)
    /\ modified' = TRUE
    /\ UNCHANGED << source_file, cpp_lib_ranges, pc, predicate, built,
                    built_src, cached_begin, it, last, line, out, vec_init,
                    vec, fe_it, mutated, consumptions, ub, exit_code >>

\* show(results) is called again on the same view object.
ConsumeAgain ==
    /\ pc = "use_for_each"
    /\ built
    /\ consumptions < MaxConsume
    /\ pc' = "show_results"
    /\ UNCHANGED << source_file, cpp_lib_ranges, numbers, predicate, built,
                    built_src, cached_begin, it, last, line, out, vec_init,
                    vec, fe_it, mutated, consumptions, modified, ub,
                    exit_code >>

NextPipe ==
    \/ PrintBanner
    \/ ShowBegin
    \/ ShowElem
    \/ ShowEndl
    \/ BuildPipeline
    \/ ModifySource
    \/ ConsumeAgain

SpecPipe == InitPipe /\ [][NextPipe]_vars

\* ---------------------------------------------------------- traversal harness
\* The program with vec initialised from every bounded sequence.
InitEach ==
    /\ \E b \in Builds : source_file = b[1] /\ cpp_lib_ranges = b[2]
    /\ numbers = Numbers0
    /\ predicate = "is_even"
    /\ vec_init \in BoundedSeqs
    /\ InitCommon

SpecEach == InitEach /\ [][Next]_vars

\* ------------------------------------------------------ reference operators
\* What each stage of the pipeline denotes on a whole sequence.
FilterSeq(s, p) == SelectSeq(s, LAMBDA n : Pred(p, n))
TransformSeq(s) == [i \in 1 .. Len(s) |-> MapperResult(s[i])]
ReverseSeq(s) == [i \in 1 .. Len(s) |-> s[Len(s) + 1 - i]]
PipelineOf(s, p) == ReverseSeq(TransformSeq(FilterSeq(s, p)))

\* The lines show wrote, in order, and those it wrote for container c.
ShowLines == SelectSeq(out, LAMBDA l : l.kind = "show")
LinesOf(c) ==
    LET sel == SelectSeq(out, LAMBDA l : l.kind = "show" /\ l.text = c)
    IN  [i \in 1 .. Len(sel) |-> sel[i].data]
ShowTags == [i \in 1 .. Len(ShowLines) |-> ShowLines[i].text]

IsPrefix(a, b) == Len(a) <= Len(b) /\ a = SubSeq(b, 1, Len(a))

\* Positions of control at which vec exists, and at which for_each is over.
VecLive == { "show_vec", "show_vec_loop", "for_each", "for_each_loop",
             "show_vec_after", "show_vec_after_loop", "return", "done" }
TraversalOver == { "show_vec_after", "show_vec_after_loop", "return", "done" }

\* ------------------------------------------------------------------ claims

\* C1: for the source [6,5,4,3,2,1] with predicate is-even and mapper +1, one
\* full consumption of filter -> transform -> reverse yields exactly [3,5,7],
\* in that order: show(results) writes 3, then 5, then 7, and nothing else.
C1_PipelineYields357 ==
    /\ pc = "show_results_loop" => IsPrefix(line, << 3, 5, 7 >>)
    /\ consumptions >= 1 => LinesOf("results") = << << 3, 5, 7 >> >>
    /\ (cpp_lib_ranges /\ pc = "use_for_each") => consumptions = 1

C1_Witness ==
    /\ numbers = << 6, 5, 4, 3, 2, 1 >>
    /\ pc = "use_for_each"
    /\ LinesOf("results") = << << 3, 5, 7 >> >>

\* C2 as stated: for [1,2,3,4,5] with predicate is-even and mutator +1, after
\* for_each over the filter view completes the sequence equals [1,3,3,4,5].
C2_Original ==
    (cpp_lib_ranges /\ vec_init = << 1, 2, 3, 4, 5 >> /\ pc \in TraversalOver)
        => vec = << 1, 3, 3, 4, 5 >>

\* C2 amended: after the traversal the sequence equals [1,3,3,5,5]: both even
\* elements, 2 and 4, are incremented, and that is what the second show of
\* vec prints.
C2_Amended ==
    /\ (cpp_lib_ranges /\ vec_init = << 1, 2, 3, 4, 5 >> /\ pc \in TraversalOver)
          => vec = << 1, 3, 3, 5, 5 >>
    /\ (cpp_lib_ranges /\ vec_init = << 1, 2, 3, 4, 5 >> /\ pc \in { "return", "done" })
          => LinesOf("vec") = << << 1, 2, 3, 4, 5 >>, << 1, 3, 3, 5, 5 >> >>

C2_Witness ==
    /\ cpp_lib_ranges
    /\ vec_init = << 1, 2, 3, 4, 5 >>
    /\ pc = "show_vec_after"
    /\ mutated = << 2, 4 >>

\* C3 as stated: in every run the sequence prints are, in order and each
\* exactly once, the initial sequence, the pipeline result, [1,2,3,4,5] before
\* the traversal and the same sequence after it, and the run exits with 0.
C3_Original ==
    pc = "done" =>
        /\ ShowTags = << "numbers", "results", "vec", "vec" >>
        /\ ShowLines[1].data = Numbers0
        /\ ShowLines[3].data = Vec0
        /\ ShowLines[4].data = vec
        /\ exit_code = << 0 >>

\* The show calls a build makes, in order.
C3_Expected ==
    IF cpp_lib_ranges THEN << "numbers", "results", "vec", "vec" >>
    ELSE << "numbers", "vec", "vec" >>

C3_Safety ==
    /\ IsPrefix(ShowTags, C3_Expected)
    /\ Len(ShowLines) >= 1 => ShowLines[1].data = Numbers0
    /\ \A i \in 1 .. Len(ShowLines) :
          (ShowLines[i].text = "vec" /\ i < Len(C3_Expected)) => ShowLines[i].data = Vec0
    /\ pc = "done" =>
          /\ ShowTags = C3_Expected
          /\ ShowLines[Len(ShowLines)].data = vec
          /\ exit_code = << 0 >>
    /\ exit_code # << >> => (pc = "done" /\ exit_code = << 0 >>)
    /\ pc # "crashed" /\ ~ub

\* C3 amended: in every run of a build in which __cpp_lib_ranges is defined
\* the sequence prints are, in order and each exactly once, the initial
\* sequence, the pipeline result, [1,2,3,4,5] before the traversal and that
\* sequence after it; in a build in which it is not defined the pipeline
\* result is not printed and the other three prints happen in the same order;
\* every run terminates with exit code 0 and there is no other exit path.
C3_Amended == [] C3_Safety /\ <>(pc = "done")

C3_Witness ==
    /\ cpp_lib_ranges
    /\ pc = "done"
    /\ ShowTags = << "numbers", "results", "vec", "vec" >>
    /\ exit_code = << 0 >>

\* C4: the source of the pure pipeline is never modified: building the view
\* and every step of every consumption of it (each element show prints
\* included) leave numbers as it was; the mapper increments a copy.
C4_SourceNeverModified ==
    /\ [] ((built /\ ~modified) => numbers = built_src)
    /\ [][ (pc \in { "build", "show_results", "show_results_loop" }
             /\ modified' = modified) => numbers' = numbers ]_vars

C4_Witness ==
    /\ pc = "show_results_loop"
    /\ consumptions >= 1
    /\ line # << >>
    /\ ~modified
    /\ numbers = built_src

\* C5: for every bounded source, consuming the same built pipeline fully
\* twice in a row with the source unchanged in between yields the same
\* sequence both times: same length, same values, same order.
C5_RepeatedConsumptionSame ==
    /\ \A i, j \in 1 .. Len(LinesOf("results")) :
          LinesOf("results")[i] = LinesOf("results")[j]
    /\ (pc = "show_results_loop" /\ consumptions >= 1)
          => IsPrefix(line, LinesOf("results")[1])
    /\ Len(LinesOf("results")) = consumptions
    /\ ~ub

C5_Witness ==
    /\ consumptions = 2
    /\ Len(LinesOf("results")) = 2
    /\ Len(LinesOf("results")[2]) >= 2

\* C6: for every bounded input, the mutating filtered traversal leaves the
\* length unchanged, leaves every element that did not satisfy the predicate
\* at its position with its value, and moves no element: each position holds
\* its own original element or that element incremented.
C6_TraversalFrame ==
    pc \in VecLive =>
        /\ Len(vec) = Len(vec_init)
        /\ \A i \in 1 .. Len(vec_init) :
              /\ vec_init[i] % 2 # 0 => vec[i] = vec_init[i]
              /\ vec[i] \in { vec_init[i], vec_init[i] + 1 }

C6_Witness ==
    /\ cpp_lib_ranges
    /\ pc = "show_vec_after"
    /\ Len(vec) = 3
    /\ vec # vec_init
    /\ \E i \in 1 .. Len(vec) : vec_init[i] % 2 = 1

\* C7: building the pipeline computes no element and takes no snapshot: when
\* the source is changed after the build and before the first consumption,
\* that consumption yields the filter/map/reverse result of the source as it
\* is when consumed.
C7_NoSnapshot ==
    /\ (built /\ consumptions = 0 /\ pc = "show_results")
          => /\ cached_begin = 0
             /\ line = << >>
             /\ LinesOf("results") = << >>
    /\ consumptions >= 1 => LinesOf("results")[1] = PipelineOf(numbers, predicate)

C7_Witness ==
    /\ modified
    /\ consumptions >= 1
    /\ LinesOf("results")[1] = PipelineOf(numbers, predicate)
    /\ PipelineOf(numbers, predicate) # PipelineOf(built_src, predicate)

\* No element of the source satisfies the predicate.
C8_NoMatch == \A i \in 1 .. Len(numbers) : ~Pred(predicate, numbers[i])

\* C8: when no element of the source satisfies the predicate (the source is
\* empty, or the predicate is always false, or no element is even), consuming
\* the pipeline yields zero elements and reaches no error state.
C8_EmptyResult ==
    /\ (C8_NoMatch /\ pc = "show_results_loop") => (it = last /\ line = << >>)
    /\ (C8_NoMatch /\ consumptions >= 1)
          => \A i \in 1 .. Len(LinesOf("results")) : LinesOf("results")[i] = << >>
    /\ ~ub /\ pc # "crashed"

C8_Witness ==
    /\ C8_NoMatch
    /\ numbers # << >>
    /\ predicate = "is_even"
    /\ consumptions >= 1
    /\ LinesOf("results") = << << >> >>

\* Whether output line l is the diagnostic line naming the missing macro.
C9_NamesMacro(l) == l.kind = "text" /\ l.text = "__cpp_lib_ranges"

C9_Safety ==
    ~cpp_lib_ranges =>
        /\ ~built /\ consumptions = 0 /\ mutated = << >> /\ ~ub
        /\ pc \in VecLive => vec = << 1, 2, 3, 4, 5 >>
        /\ pc = "done" =>
              /\ exit_code = << 0 >>
              /\ ShowLines = << ShowLine("numbers", Numbers0),
                                ShowLine("vec", << 1, 2, 3, 4, 5 >>),
                                ShowLine("vec", << 1, 2, 3, 4, 5 >>) >>
              /\ \E i, j, k, l, m \in 1 .. Len(out) :
                    /\ i < j /\ j < k /\ k < l /\ l < m
                    /\ out[i] = ShowLine("numbers", Numbers0)
                    /\ C9_NamesMacro(out[j])
                    /\ out[k] = ShowLine("vec", << 1, 2, 3, 4, 5 >>)
                    /\ C9_NamesMacro(out[l])
                    /\ out[m] = ShowLine("vec", << 1, 2, 3, 4, 5 >>)

\* C9: when __cpp_lib_ranges is not defined the program still runs to
\* completion with exit code 0: a diagnostic naming the macro is printed in
\* place of the pipeline result, the pipeline is never built, a second
\* diagnostic is printed in place of the traversal, and [1,2,3,4,5] is printed
\* before and after it with identical contents.
C9_FallbackRuns == [] C9_Safety /\ (~cpp_lib_ranges => <>(pc = "done"))

C9_Witness ==
    /\ ~cpp_lib_ranges
    /\ pc = "done"
    /\ exit_code = << 0 >>
    /\ Len(ShowLines) = 3

\* C10: the traversal is one in-order pass that decides membership from each
\* element's value before mutating it: afterwards position i holds the
\* original value plus 1 when the original was even and the original value
\* otherwise, and the mutator ran at most once on any position.
C10_DecideThenMutate ==
    /\ \A i, j \in 1 .. Len(mutated) : i < j => mutated[i] < mutated[j]
    /\ \A i \in 1 .. Len(mutated) :
          mutated[i] \in 1 .. Len(vec_init) /\ vec_init[mutated[i]] % 2 = 0
    /\ (cpp_lib_ranges /\ pc \in TraversalOver) =>
          /\ Len(vec) = Len(vec_init)
          /\ \A i \in 1 .. Len(vec_init) :
                vec[i] = IF vec_init[i] % 2 = 0 THEN vec_init[i] + 1
                         ELSE vec_init[i]
          /\ \A i \in 1 .. Len(vec_init) :
                Cardinality({ k \in 1 .. Len(mutated) : mutated[k] = i })
                    = IF vec_init[i] % 2 = 0 THEN 1 ELSE 0

C10_Witness ==
    /\ cpp_lib_ranges
    /\ pc = "show_vec_after"
    /\ Len(mutated) >= 2
    /\ \E i \in 1 .. Len(vec_init) : vec_init[i] % 2 = 1

=============================================================================
